---- MODULE Spec2Model ----
(***************************************************************************)
(* PI-Finder: the investigator search page (PiFinderPage), the client      *)
(* fetchResults, the /api/investigators route and the trial-metadata hook. *)
(*                                                                         *)
(* Text values whose characters matter (zip codes, years typed in the     *)
(* form, sponsor class, overall status) are sequences of one-character     *)
(* strings.  JavaScript null/undefined is Null; an absent number is        *)
(* Undefined (0: the code tests optional years by truthiness only).        *)
(***************************************************************************)
EXTENDS Integers, Sequences, FiniteSets, TLC

\* ---------------------------------------------------------------- constants
ITEMS_PER_PAGE == 6
DEFAULT_RADIUS == 15
MIN_YEAR == 1900
MAX_YEAR == 2100

\* ------------------------------------------------------------------- bounds
\* Longest candidate sequence handed to the reconciler on its own.
MaxCandidates == 13

\* null for an identifier (an atomic string) and for a text (a sequence).
\* A nullable object or array (searchParams, data, allPhysicians) is <<>> when
\* null/undefined and <<v>> when it holds v.
Null == "null"
NullText == <<"null">>
Undefined == 0

Digits == {"0", "1", "2", "3", "4", "5", "6", "7", "8", "9"}

\* ------------------------------------------------------------ text helpers
DigitVal(c) ==
    CASE c = "0" -> 0 [] c = "1" -> 1 [] c = "2" -> 2 [] c = "3" -> 3
      [] c = "4" -> 4 [] c = "5" -> 5 [] c = "6" -> 6 [] c = "7" -> 7
      [] c = "8" -> 8 [] c = "9" -> 9

DigitChar(d) == <<"0", "1", "2", "3", "4", "5", "6", "7", "8", "9">>[d + 1]

AllDigits(s) == \A i \in 1..Len(s) : s[i] \in Digits

\* the value of the first n digits of s
RECURSIVE NumberUpTo(_, _)
NumberUpTo(s, n) ==
    IF n = 0 THEN 0 ELSE 10 * NumberUpTo(s, n - 1) + DigitVal(s[n])

\* Number(y) for a string of decimal digits
Number(s) == NumberUpTo(s, Len(s))

\* the number of decimal digits of n
NumDigits(n) == IF n < 10 THEN 1 ELSE IF n < 100 THEN 2 ELSE IF n < 1000 THEN 3 ELSE 4

Pow10(k) == CASE k = 0 -> 1 [] k = 1 -> 10 [] k = 2 -> 100 [] k = 3 -> 1000

\* String(n) for an integer 0 <= n <= 9999
String(n) ==
    LET d == NumDigits(n)
    IN  [i \in 1..d |-> DigitChar((n \div Pow10(d - i)) % 10)]

LowerChar(c) ==
    CASE c = "A" -> "a" [] c = "B" -> "b" [] c = "C" -> "c" [] c = "D" -> "d"
      [] c = "E" -> "e" [] c = "G" -> "g" [] c = "H" -> "h" [] c = "I" -> "i"
      [] c = "L" -> "l" [] c = "M" -> "m" [] c = "N" -> "n" [] c = "O" -> "o"
      [] c = "P" -> "p" [] c = "R" -> "r" [] c = "S" -> "s" [] c = "T" -> "t"
      [] c = "U" -> "u" [] c = "Y" -> "y"
      [] OTHER -> c

toLowerCase(s) == [i \in 1..Len(s) |-> LowerChar(s[i])]

startsWith(s, prefix) ==
    /\ Len(s) >= Len(prefix)
    /\ SubSeq(s, 1, Len(prefix)) = prefix

\* Math.ceil(a / b) for a >= 0, b > 0
Ceil(a, b) == (a + b - 1) \div b

Min(a, b) == IF a < b THEN a ELSE b
Max(a, b) == IF a > b THEN a ELSE b

\* Array.prototype.slice(start, end) with 0-based, end-exclusive indices
Slice(s, start, end) == SubSeq(s, start + 1, Min(end, Len(s)))

\* ------------------------------------------------- investigators table (db)
\* Rows of the investigators table in insertion order.  startDate is the
\* year of start_date: the route compares it with <year>-01-01 and
\* <year>-12-31 only.
Z77030 == <<"7", "7", "0", "3", "0">>
Z77025 == <<"7", "7", "0", "2", "5">>
Z10001 == <<"1", "0", "0", "0", "1">>
Z99999 == <<"9", "9", "9", "9", "9">>

investigators ==
    << [id |-> 1,  nctId |-> "NCT02", zip |-> Z77030, startDate |-> 2021],
       [id |-> 2,  nctId |-> "NCT01", zip |-> Z77030, startDate |-> 2022],
       [id |-> 3,  nctId |-> "NCT03", zip |-> Z10001, startDate |-> 2020],
       [id |-> 4,  nctId |-> Null,    zip |-> Z77030, startDate |-> 2023],
       [id |-> 5,  nctId |-> "NCT05", zip |-> Z77025, startDate |-> 2020],
       [id |-> 6,  nctId |-> "NCT04", zip |-> Z77030, startDate |-> 2016],
       [id |-> 7,  nctId |-> "NCT01", zip |-> Z77030, startDate |-> 2019],
       [id |-> 8,  nctId |-> "",      zip |-> Z77025, startDate |-> 2018],
       [id |-> 9,  nctId |-> "NCT02", zip |-> Z77030, startDate |-> 2015],
       [id |-> 10, nctId |-> "NCT01", zip |-> Z10001, startDate |-> 2014] >>

\* zipcodes.lookup / zipcodes.radius: the geo library, given as a table.
zipcodes_lookup(zip) == zip \in {Z77030, Z77025, Z10001}

zipcodes_radius(zip, miles) ==
    IF zip \in {Z77030, Z77025} THEN
        IF miles >= 3 THEN {Z77030, Z77025} ELSE {zip}
    ELSE {zip}

\* ORDER BY start_date DESC, ties in insertion order: row i goes to the
\* position after every row that precedes it in that order
OrderByStartDateDesc(rows) ==
    LET rs == rows
        n == Len(rs)
        Before(j, i) ==
            \/ rs[j].startDate > rs[i].startDate
            \/ (rs[j].startDate = rs[i].startDate /\ j < i)
        pos == [i \in 1..n |-> Cardinality({j \in 1..n : Before(j, i)}) + 1]
    IN  [k \in 1..n |-> rs[CHOOSE i \in 1..n : pos[i] = k]]

\* -------------------------------------------- GET /api/investigators
\* variant of isValidYearParam: any run of digits passes
isValidYearParamAnyLength(y) == y = NullText \/ AllDigits(y)

isValidYearParam(y) == y = NullText \/ Len(y) = 0 \/ (Len(y) = 4 /\ AllDigits(y))

\* the rows matching whereExpr, ordered
MatchingRows(zipList, startYearNum, endYearNum) ==
    OrderByStartDateDesc(
        SelectSeq(investigators,
                  LAMBDA row :
                    /\ row.zip \in zipList
                    /\ (startYearNum # Undefined => row.startDate >= startYearNum)
                    /\ (endYearNum # Undefined => row.startDate <= endYearNum)))

toPhysician(row) == [id |-> row.id, nctId |-> row.nctId, startDate |-> row.startDate]

\* NextResponse.json({ error }, { status }): an error body, returned before
\* any query; physicians and totalCount are not in the body
errorResponse(status) ==
    [status |-> status, error |-> TRUE, dbQueries |-> 0,
     gte |-> Undefined, lte |-> Undefined,
     physicians |-> <<>>, totalCount |-> 0]

\* req: [zip, radius, page, startYear, endYear], each text or NullText.
\* The answer tells, beside the status and the body, how many queries were
\* sent to the database (rows and count) and the years of the gte and lte
\* conditions on start_date (Undefined: no such condition).
GET(req) ==
    LET zip == IF req.zip = NullText THEN <<>> ELSE req.zip
        radiusMiles == Number(IF req.radius = NullText THEN <<"1", "5">> ELSE req.radius)
        page == Max(Number(IF req.page = NullText THEN <<"1">> ELSE req.page), 1)
        sy0 == IF req.startYear = NullText \/ Len(req.startYear) = 0
               THEN Undefined ELSE Number(req.startYear)
        ey0 == IF req.endYear = NullText \/ Len(req.endYear) = 0
               THEN Undefined ELSE Number(req.endYear)
        swap == sy0 # Undefined /\ ey0 # Undefined /\ sy0 > ey0
        startYearNum == IF swap THEN ey0 ELSE sy0
        endYearNum == IF swap THEN sy0 ELSE ey0
        offset == (page - 1) * ITEMS_PER_PAGE
        all == MatchingRows(zipcodes_radius(zip, radiusMiles), startYearNum, endYearNum)
        rows == Slice(all, offset, offset + ITEMS_PER_PAGE)
    IN  IF ~isValidYearParam(req.startYear) \/ ~isValidYearParam(req.endYear)
        THEN errorResponse(400)
        ELSE IF ~(Len(zip) = 5 /\ AllDigits(zip))
        THEN errorResponse(400)
        ELSE IF ~zipcodes_lookup(zip)
        THEN errorResponse(404)
        ELSE [status |-> 200, error |-> FALSE, dbQueries |-> 2,
              gte |-> startYearNum, lte |-> endYearNum,
              physicians |-> [i \in 1..Len(rows) |-> toPhysician(rows[i])],
              totalCount |-> Len(all)]

\* ------------------------------------------------------ lib/api.ts
\* fetchResults has six parameters.  The result is the parsed body when the
\* call resolves; ok = FALSE when it throws.
fetchResults(zipCode, radius, indications, page, startYear, endYear) ==
    LET res == GET([zip |-> zipCode,
                    radius |-> String(radius),
                    page |-> String(page),
                    startYear |-> IF startYear # Undefined THEN String(startYear) ELSE NullText,
                    endYear |-> IF endYear # Undefined THEN String(endYear) ELSE NullText])
    IN  IF ~(Len(zipCode) = 5 /\ AllDigits(zipCode))
        THEN [ok |-> FALSE, physicians |-> <<>>, totalCount |-> 0]
        ELSE IF res.status # 200
        THEN [ok |-> FALSE, physicians |-> <<>>, totalCount |-> 0]
        ELSE [ok |-> TRUE, physicians |-> res.physicians, totalCount |-> res.totalCount]

\* ------------------------------------------------ trial registry (upstream)
\* What /api/trial-meta returns per identifier: the trimmed TrialMeta record.
\* NCT05 is unknown upstream.
registry ==
    << [nctId |-> "NCT01", phase |-> "2",
        fundedBy |-> <<"I", "N", "D", "U", "S", "T", "R", "Y">>,
        overallStatus |-> <<"R", "E", "C", "R", "U", "I", "T", "I", "N", "G">>],
       [nctId |-> "NCT02", phase |-> "3",
        fundedBy |-> <<"O", "T", "H", "E", "R">>,
        overallStatus |-> NullText],
       [nctId |-> "NCT03", phase |-> "2",
        fundedBy |-> <<"I", "n", "d", "u", "s", "t", "r", "y">>,
        overallStatus |-> <<"N", "O", "T", "_", "Y", "E", "T", "_",
                            "R", "E", "C", "R", "U", "I", "T", "I", "N", "G">>],
       [nctId |-> "NCT04", phase |-> "3",
        fundedBy |-> NullText,
        overallStatus |-> <<"R", "e", "c", "r", "u", "i", "t", "i", "n", "g">>] >>

\* lexicographic order of the identifiers in use
NctOrder == <<"NCT01", "NCT02", "NCT03", "NCT04", "NCT05">>
NctRank(id) == CHOOSE i \in 1..Len(NctOrder) : NctOrder[i] = id

\* the body of a successful /api/trial-meta answer for ids: the studies the
\* registry knows among the requested identifiers
fetchTrialMeta(ids) ==
    LET wanted == {ids[i] : i \in 1..Len(ids)}
    IN  SelectSeq(registry, LAMBDA tm : tm.nctId \in wanted)

\* [...ids].sort(): the query key of useTrialMeta (the join with "," adds
\* nothing: no identifier holds a comma)
keyIds(ids) ==
    LET s == ids
        n == Len(s)
        Before(j, i) ==
            \/ NctRank(s[j]) < NctRank(s[i])
            \/ (s[j] = s[i] /\ j < i)
        pos == [i \in 1..n |-> Cardinality({j \in 1..n : Before(j, i)}) + 1]
    IN  [k \in 1..n |-> s[CHOOSE i \in 1..n : pos[i] = k]]

\* ============================================================ PiFinderPage
VARIABLES
    searchParams,               \* useState: <<>> or <<[zipCode, radius, startYear, endYear]>>
    currentPage,                \* useState
    filters,                    \* useState<TrialFilters>
    lastData,                   \* useQuery: the last defined result (placeholderData)
    isFetching,                 \* useQuery: the paged fetch is in flight
    error,                      \* useQuery: the paged fetch failed
    hasData,                    \* useQuery: the query of the current key holds a fetched result
    allPhysicians,              \* useState: <<>> or <<array>>
    allLoading,                 \* useState
    allError,                   \* useState: Null or a message
    allPhysiciansDataAvailable, \* useState
    effectPending,              \* the full-set effect's deps changed, it has not run yet
    inflight,                   \* full-set fetches not yet settled: [sp, cancelled]
    metaStatus,                 \* useTrialMeta: status of the query of the observed key
    metaData,                   \* useTrialMeta: its data, <<>> or <<TrialMeta[]>>
    \* ---- /api/investigators, one request
    routeReq,                   \* <<>> or <<the request's query parameters>>
    routeRes,                   \* <<>> or <<the response>>
    \* ---- useTrialMeta's queryFn and /api/trial-meta, one request
    tmCaller,                   \* who calls the endpoint: the hook, or a client of its own
    tmIds,                      \* the identifier list the caller holds
    tmRequest,                  \* <<>> or <<[method, query, body]>>
    tmResponse,                 \* <<>> or <<[status, body]>>
    gwPc,                       \* where the endpoint is: idle, route, fetch, done
    gwIds,                      \* fetchTrialMeta: ids
    gwI,                        \* fetchTrialMeta: i
    gwPageToken,                \* fetchTrialMeta: pageToken (Undefined when none)
    gwOut,                      \* fetchTrialMeta: out
    gwLog,                      \* the upstream requests so far (i, filter.ids, pageSize,
                                \* pageToken), each with its outcome
    ctPageLimit                 \* the most studies the upstream puts in one page

pageVars == <<searchParams, currentPage, filters, lastData, isFetching, error, hasData,
              allPhysicians, allLoading, allError, allPhysiciansDataAvailable,
              effectPending, inflight, metaStatus, metaData>>

\* the state of the route handlers
serverVars == <<routeReq, routeRes, tmCaller, tmIds, tmRequest, tmResponse,
                gwPc, gwIds, gwI, gwPageToken, gwOut, gwLog, ctPageLimit>>

vars == <<pageVars, serverVars>>

\* no request has reached the route handlers
ServerIdle ==
    /\ routeReq = <<>>
    /\ routeRes = <<>>
    /\ tmCaller = "useTrialMeta"
    /\ tmIds = <<>>
    /\ tmRequest = <<>>
    /\ tmResponse = <<>>
    /\ gwPc = "idle"
    /\ gwIds = <<>>
    /\ gwI = 0
    /\ gwPageToken = Undefined
    /\ gwOut = <<>>
    /\ gwLog = <<>>
    /\ ctPageLimit = 1000

PHASE_OPTIONS == {"1", "2", "3", "4", "NA"}
DEFAULT_FILTERS == [phases |-> {}, sponsorType |-> "Any", recruitingOnly |-> FALSE]

\* what the form fields can hold at submission
ZipInputs == {<<>>, Z77030, Z99999, <<"7", "7", "0", "3">>}
StartYearInputs == {<<>>, <<"2", "0", "2", "1">>, <<"1", "8", "0", "0">>}
EndYearInputs == {<<>>, <<"2", "0", "1", "9">>}
\* what the filter drawer can emit: the phase chips toggled on are one of
PhaseInputs == {{}, {"2"}, {"3"}, {"1", "4"}, {"2", "NA"}}
FilterChoices ==
    [phases : PhaseInputs,
     sponsorType : {"Any", "Industry"},
     recruitingOnly : BOOLEAN]

\* ------------------------------------------------------- render pipeline
\* data of useQuery: the query's own result when it holds one; else undefined
\* after an error, and the last defined result (placeholderData) while pending
data == IF error /\ ~hasData THEN <<>> ELSE lastData

dataPhysicians == IF data = <<>> THEN <<>> ELSE data[1].physicians
dataTotalCount == IF data = <<>> THEN 0 ELSE data[1].totalCount

isTrialFilterActive ==
    \/ filters.phases # {}
    \/ filters.sponsorType # "Any"
    \/ filters.recruitingOnly

\* variant of base: the held full set is used whenever there is one, also in
\* unfiltered mode
baseFullSetFirst == IF allPhysicians # <<>> THEN allPhysicians[1] ELSE dataPhysicians

\* base of nctIds and of filteredPhysicians
base == IF isTrialFilterActive /\ allPhysicians # <<>> THEN allPhysicians[1] ELSE dataPhysicians

nctIds ==
    LET b == base
        ids == [i \in 1..Len(b) |-> b[i].nctId]
    IN  SelectSeq(ids, LAMBDA id : id # Null /\ id # "")

metaKey == keyIds(nctIds)

\* useTrialMeta(nctIds): the query is enabled when ids.length > 0
metaEnabled == Len(nctIds) > 0
metaError == metaEnabled /\ metaStatus = "error"
metaLoading == metaEnabled /\ metaStatus = "pending"

\* variant of trialMeta: a query in error gives no records
trialMetaNoneOnError ==
    IF metaData = <<>> \/ metaStatus = "error" THEN <<>> ELSE metaData[1]

\* data: trialMeta = []
trialMeta == IF metaData = <<>> THEN <<>> ELSE metaData[1]

\* metaMap: for (const tm of trialMeta) m.set(tm.nctId, tm), as a function
\* from the identifiers set to the last record set for each
metaMap ==
    LET tms == trialMeta
    IN  [id \in {tms[i].nctId : i \in 1..Len(tms)} |->
            LET hits == SelectSeq(tms, LAMBDA tm : tm.nctId = id)
            IN  hits[Len(hits)]]

\* variant of Keep: the recruiting-status check is missing
KeepNoRecruitCheck(p, f, m) ==
    LET meta == IF p.nctId # Null /\ p.nctId # "" /\ p.nctId \in DOMAIN m
                THEN <<m[p.nctId]>> ELSE <<>>
    IN  IF meta = <<>> THEN FALSE
        ELSE IF f.phases # {} /\ meta[1].phase \notin f.phases THEN FALSE
        ELSE IF /\ f.sponsorType = "Industry"
                /\ (\/ meta[1].fundedBy = NullText
                    \/ toLowerCase(meta[1].fundedBy) # <<"i", "n", "d", "u", "s", "t", "r", "y">>)
             THEN FALSE
        ELSE TRUE

\* variant of Keep: fail-open, an investigator without metadata is kept
KeepFailOpen(p, f, m) ==
    LET meta == IF p.nctId # Null /\ p.nctId # "" /\ p.nctId \in DOMAIN m
                THEN <<m[p.nctId]>> ELSE <<>>
    IN  IF meta = <<>> THEN TRUE
        ELSE IF f.phases # {} /\ meta[1].phase \notin f.phases THEN FALSE
        ELSE IF /\ f.sponsorType = "Industry"
                /\ (\/ meta[1].fundedBy = NullText
                    \/ toLowerCase(meta[1].fundedBy) # <<"i", "n", "d", "u", "s", "t", "r", "y">>)
             THEN FALSE
        ELSE IF /\ f.recruitingOnly
                /\ ~(/\ meta[1].overallStatus # NullText
                     /\ startsWith(toLowerCase(meta[1].overallStatus),
                                   <<"r", "e", "c", "r", "u", "i", "t">>))
             THEN FALSE
        ELSE TRUE

\* variant of Keep: a missing record excludes only when a phase is asked for;
\* the sponsor and status checks read the missing record as not excluding
KeepMissingOnlyForPhase(p, f, m) ==
    LET meta == IF p.nctId # Null /\ p.nctId # "" /\ p.nctId \in DOMAIN m
                THEN <<m[p.nctId]>> ELSE <<>>
    IN  IF meta = <<>> THEN f.phases = {} /\ p.nctId # Null /\ p.nctId # ""
        ELSE IF f.phases # {} /\ meta[1].phase \notin f.phases THEN FALSE
        ELSE IF /\ f.sponsorType = "Industry"
                /\ (\/ meta[1].fundedBy = NullText
                    \/ toLowerCase(meta[1].fundedBy) # <<"i", "n", "d", "u", "s", "t", "r", "y">>)
             THEN FALSE
        ELSE IF /\ f.recruitingOnly
                /\ ~(/\ meta[1].overallStatus # NullText
                     /\ startsWith(toLowerCase(meta[1].overallStatus),
                                   <<"r", "e", "c", "r", "u", "i", "t">>))
             THEN FALSE
        ELSE TRUE

\* variant of Keep: a null sponsor class passes the Industry constraint
KeepNullSponsorPasses(p, f, m) ==
    LET meta == IF p.nctId # Null /\ p.nctId # "" /\ p.nctId \in DOMAIN m
                THEN <<m[p.nctId]>> ELSE <<>>
    IN  IF meta = <<>> THEN FALSE
        ELSE IF f.phases # {} /\ meta[1].phase \notin f.phases THEN FALSE
        ELSE IF /\ f.sponsorType = "Industry"
                /\ meta[1].fundedBy # NullText
                /\ toLowerCase(meta[1].fundedBy) # <<"i", "n", "d", "u", "s", "t", "r", "y">>
             THEN FALSE
        ELSE IF /\ f.recruitingOnly
                /\ ~(/\ meta[1].overallStatus # NullText
                     /\ startsWith(toLowerCase(meta[1].overallStatus),
                                   <<"r", "e", "c", "r", "u", "i", "t">>))
             THEN FALSE
        ELSE TRUE

\* variant of Keep: passing one active constraint is enough
KeepAnyConstraint(p, f, m) ==
    LET meta == IF p.nctId # Null /\ p.nctId # "" /\ p.nctId \in DOMAIN m
                THEN <<m[p.nctId]>> ELSE <<>>
    IN  IF meta = <<>> THEN FALSE
        ELSE \/ f.phases # {} /\ meta[1].phase \in f.phases
             \/ /\ f.sponsorType = "Industry"
                /\ meta[1].fundedBy # NullText
                /\ toLowerCase(meta[1].fundedBy) = <<"i", "n", "d", "u", "s", "t", "r", "y">>
             \/ /\ f.recruitingOnly
                /\ meta[1].overallStatus # NullText
                /\ startsWith(toLowerCase(meta[1].overallStatus),
                              <<"r", "e", "c", "r", "u", "i", "t">>)

\* the callback of base.filter, given the filters and the lookup map:
\* meta is <<>> when undefined
Keep(p, f, m) ==
    LET meta == IF p.nctId # Null /\ p.nctId # "" /\ p.nctId \in DOMAIN m
                THEN <<m[p.nctId]>> ELSE <<>>
    IN  IF meta = <<>> THEN FALSE
        ELSE IF f.phases # {} /\ meta[1].phase \notin f.phases THEN FALSE
        ELSE IF /\ f.sponsorType = "Industry"
                /\ (\/ meta[1].fundedBy = NullText
                    \/ toLowerCase(meta[1].fundedBy) # <<"i", "n", "d", "u", "s", "t", "r", "y">>)
             THEN FALSE
        ELSE IF /\ f.recruitingOnly
                /\ ~(/\ meta[1].overallStatus # NullText
                     /\ startsWith(toLowerCase(meta[1].overallStatus),
                                   <<"r", "e", "c", "r", "u", "i", "t">>))
             THEN FALSE
        ELSE TRUE

\* variant of filteredPhysicians: no early return when no filter is active
filteredPhysiciansNoEarlyReturn ==
    LET b == base
        m == metaMap
    IN  IF Len(b) = 0 THEN <<>>
        ELSE SelectSeq(b, LAMBDA p : Keep(p, filters, m))

filteredPhysicians ==
    LET noPhase == filters.phases = {}
        anySponsor == filters.sponsorType = "Any"
        noRecruit == ~filters.recruitingOnly
        b == base
        m == metaMap
    IN  IF Len(b) = 0 THEN <<>>
        ELSE IF ~isTrialFilterActive \/ (noPhase /\ anySponsor /\ noRecruit) THEN b
        ELSE SelectSeq(b, LAMBDA p : Keep(p, filters, m))

\* variant of paginate: the start index is off by one page
paginateFromNextPage(list, page) ==
    LET start == page * ITEMS_PER_PAGE
        end == start + ITEMS_PER_PAGE
    IN  Slice(list, start, end)

\* the in-memory page of the filtered list
paginate(list, page) ==
    LET start == (page - 1) * ITEMS_PER_PAGE
        end == start + ITEMS_PER_PAGE
    IN  Slice(list, start, end)

paginatedPhysicians ==
    IF isTrialFilterActive
    THEN paginate(filteredPhysicians, currentPage)
    ELSE filteredPhysicians

displayPhysicians == paginatedPhysicians
filteredTotalCount == Len(filteredPhysicians)
filteredTotalPages == Ceil(filteredTotalCount, ITEMS_PER_PAGE)
totalCountToShow == IF isTrialFilterActive THEN filteredTotalCount ELSE dataTotalCount
totalPagesToShow ==
    IF isTrialFilterActive THEN filteredTotalPages ELSE Ceil(dataTotalCount, ITEMS_PER_PAGE)

isSearching == isFetching

\* what the results section renders below the messages
resultsView ==
    IF isSearching THEN "skeleton"
    ELSE IF Len(displayPhysicians) > 0 THEN "cards"
    ELSE IF searchParams # <<>> /\ ~error THEN "empty"
    ELSE "none"

\* the "Failed to fetch trial metadata" alert is rendered
metaWarningShown == metaError

\* the allError message is rendered
allErrorShown == allError # Null

\* ---------------------------------------------------------- form validity
isZipCodeValid(zipCode) == Len(zipCode) = 0 \/ (Len(zipCode) = 5 /\ AllDigits(zipCode))

isYearValid(y) ==
    \/ Len(y) = 0
    \/ (Len(y) = 4 /\ AllDigits(y) /\ Number(y) >= MIN_YEAR /\ Number(y) <= MAX_YEAR)

\* the pages PaginationControls offers: the numbered links, previous and next
getPageNumbers(totalPages) ==
    LET startPage == Max(2, currentPage - 1)
        endPage == Min(totalPages - 1, currentPage + 1)
    IN  {1} \cup (startPage..endPage) \cup {totalPages}

PageTargets(totalPages) ==
    getPageNumbers(totalPages)
        \cup (IF currentPage > 1 THEN {currentPage - 1} ELSE {})
        \cup (IF currentPage < totalPages THEN {currentPage + 1} ELSE {})

\* ----------------------------------------------------------------- helpers
\* useTrialMeta after a render: a new query key is a new query, pending until
\* its fetch settles
MetaObserve ==
    IF metaKey' # metaKey \/ ~metaEnabled'
    THEN metaStatus' = "pending" /\ metaData' = <<>>
    ELSE UNCHANGED <<metaStatus, metaData>>

Live == {f \in inflight : ~f.cancelled}
Stale == {f \in inflight : f.cancelled}

Init ==
    /\ searchParams = <<>>
    /\ currentPage = 1
    /\ filters = DEFAULT_FILTERS
    /\ lastData = <<>>
    /\ isFetching = FALSE
    /\ error = FALSE
    /\ hasData = FALSE
    /\ allPhysicians = <<>>
    /\ allLoading = FALSE
    /\ allError = Null
    /\ allPhysiciansDataAvailable = FALSE
    /\ effectPending = FALSE
    /\ inflight = {}
    /\ metaStatus = "pending"
    /\ metaData = <<>>
    /\ ServerIdle

\* ---------------------------------------------------------------- actions
\* variant of handleSearch: the filters are not reset
handleSearchKeepFilters(zipCode, radius, startYear, endYear) ==
    LET zipOk == Len(zipCode) = 5 /\ AllDigits(zipCode)
        yearsOk == isYearValid(startYear) /\ isYearValid(endYear)
        sy == IF Len(startYear) > 0 THEN Number(startYear) ELSE Undefined
        ey == IF Len(endYear) > 0 THEN Number(endYear) ELSE Undefined
        swap == sy # Undefined /\ ey # Undefined /\ sy > ey
        syFixed == IF swap THEN ey ELSE sy
        eyFixed == IF swap THEN sy ELSE ey
        sp == [zipCode |-> zipCode, radius |-> radius,
               startYear |-> syFixed, endYear |-> eyFixed]
        wasActive == isTrialFilterActive
    IN  /\ ~effectPending
        \* the submit button is disabled otherwise
        /\ ~isSearching /\ isZipCodeValid(zipCode)
        /\ isYearValid(startYear) /\ isYearValid(endYear)
        /\ UNCHANGED filters
        /\ IF ~zipOk \/ ~yearsOk
           THEN /\ effectPending' = FALSE
                /\ UNCHANGED <<searchParams, currentPage, lastData, isFetching, error, hasData>>
           ELSE /\ currentPage' = 1
                /\ searchParams' = <<sp>>
                /\ effectPending' = TRUE
                \* the query key ["physicians", searchParams, currentPage] is compared by value
                /\ IF searchParams = <<sp>> /\ currentPage = 1
                   THEN UNCHANGED <<lastData, isFetching, error, hasData>>
                   ELSE /\ isFetching' = TRUE
                        /\ error' = FALSE
                        /\ hasData' = FALSE
                        /\ UNCHANGED lastData
        /\ UNCHANGED <<allPhysicians, allLoading, allError, allPhysiciansDataAvailable,
                       inflight>>
        /\ MetaObserve
        /\ UNCHANGED serverVars

\* the form's submit: handleSearch with the fields as typed
handleSearch(zipCode, radius, startYear, endYear) ==
    LET zipOk == Len(zipCode) = 5 /\ AllDigits(zipCode)
        yearsOk == isYearValid(startYear) /\ isYearValid(endYear)
        sy == IF Len(startYear) > 0 THEN Number(startYear) ELSE Undefined
        ey == IF Len(endYear) > 0 THEN Number(endYear) ELSE Undefined
        swap == sy # Undefined /\ ey # Undefined /\ sy > ey
        syFixed == IF swap THEN ey ELSE sy
        eyFixed == IF swap THEN sy ELSE ey
        sp == [zipCode |-> zipCode, radius |-> radius,
               startYear |-> syFixed, endYear |-> eyFixed]
        wasActive == isTrialFilterActive
    IN  /\ ~effectPending
        \* the submit button is disabled otherwise
        /\ ~isSearching /\ isZipCodeValid(zipCode)
        /\ isYearValid(startYear) /\ isYearValid(endYear)
        /\ filters' = DEFAULT_FILTERS
        /\ IF ~zipOk \/ ~yearsOk
           THEN /\ effectPending' = wasActive
                /\ UNCHANGED <<searchParams, currentPage, lastData, isFetching, error, hasData>>
           ELSE /\ currentPage' = 1
                /\ searchParams' = <<sp>>
                /\ effectPending' = TRUE
                \* the query key ["physicians", searchParams, currentPage] is compared by value
                /\ IF searchParams = <<sp>> /\ currentPage = 1
                   THEN UNCHANGED <<lastData, isFetching, error, hasData>>
                   ELSE /\ isFetching' = TRUE
                        /\ error' = FALSE
                        /\ hasData' = FALSE
                        /\ UNCHANGED lastData
        /\ UNCHANGED <<allPhysicians, allLoading, allError, allPhysiciansDataAvailable,
                       inflight>>
        /\ MetaObserve
        /\ UNCHANGED serverVars

\* a click in PaginationControls: onPageChange = handlePageChange
handlePageChange ==
    /\ ~effectPending
    \* PaginationControls is rendered
    /\ ~isSearching /\ Len(displayPhysicians) > 0 /\ totalPagesToShow > 1
    /\ \E page \in PageTargets(totalPagesToShow) :
          /\ page # currentPage
          /\ currentPage' = page
    /\ isFetching' = TRUE
    /\ error' = FALSE
    /\ hasData' = FALSE
    /\ UNCHANGED <<searchParams, filters, lastData, allPhysicians, allLoading, allError,
                   allPhysiciansDataAvailable, effectPending, inflight>>
    /\ MetaObserve
    /\ UNCHANGED serverVars

\* the drawer is rendered and its trigger enabled
DrawerShown ==
    /\ searchParams # <<>>
    /\ ~(isSearching \/ allLoading)
    /\ ~error
    /\ allError = Null
    /\ ~metaLoading
    /\ Len(displayPhysicians) > 0

\* variant of setFilters: the effect depends on filters itself
setFiltersEffectOnAnyChange ==
    /\ ~effectPending
    /\ DrawerShown
    /\ \E f \in FilterChoices : filters' = f
    /\ effectPending' = (filters' # filters)
    /\ UNCHANGED <<searchParams, currentPage, lastData, isFetching, error, hasData,
                   allPhysicians, allLoading, allError, allPhysiciansDataAvailable, inflight>>
    /\ MetaObserve
    /\ UNCHANGED serverVars

\* TrialFilterDrawer's Apply: onChange = setFilters
setFilters ==
    /\ ~effectPending
    /\ DrawerShown
    /\ \E f \in FilterChoices : filters' = f
    /\ effectPending' = (isTrialFilterActive' # isTrialFilterActive)
    /\ UNCHANGED <<searchParams, currentPage, lastData, isFetching, error, hasData,
                   allPhysicians, allLoading, allError, allPhysiciansDataAvailable, inflight>>
    /\ MetaObserve
    /\ UNCHANGED serverVars

\* the allError message's onRetry: setFilters(DEFAULT_FILTERS)
onRetryAll ==
    /\ ~effectPending
    /\ allError # Null
    /\ filters' = DEFAULT_FILTERS
    /\ effectPending' = (isTrialFilterActive' # isTrialFilterActive)
    /\ UNCHANGED <<searchParams, currentPage, lastData, isFetching, error, hasData,
                   allPhysicians, allLoading, allError, allPhysiciansDataAvailable, inflight>>
    /\ MetaObserve
    /\ UNCHANGED serverVars

\* the paged query's error message's onRetry: refetch(); a query that holds
\* a result keeps its error until the fetch settles
refetch ==
    /\ ~effectPending
    /\ error /\ ~isFetching
    /\ isFetching' = TRUE
    /\ error' = hasData
    /\ UNCHANGED <<searchParams, currentPage, filters, lastData, hasData, allPhysicians,
                   allLoading, allError, allPhysiciansDataAvailable, effectPending, inflight>>
    /\ MetaObserve
    /\ UNCHANGED serverVars

\* the paged query is fetched again in the background (no staleTime is set:
\* its result is stale at once, and a window focus or a reconnect refetches)
pageRefetch ==
    /\ ~effectPending
    /\ searchParams # <<>>
    /\ hasData /\ ~error /\ ~isFetching
    /\ isFetching' = TRUE
    /\ UNCHANGED <<searchParams, currentPage, filters, lastData, error, hasData,
                   allPhysicians, allLoading, allError, allPhysiciansDataAvailable,
                   effectPending, inflight>>
    /\ MetaObserve
    /\ UNCHANGED serverVars

\* the paged query's queryFn resolves
pageResolve ==
    LET sp == searchParams[1]
        res == fetchResults(sp.zipCode, sp.radius, <<>>, currentPage, sp.startYear, sp.endYear)
    IN  /\ ~effectPending
        /\ isFetching
        /\ res.ok
        /\ lastData' = <<[physicians |-> res.physicians, totalCount |-> res.totalCount]>>
        /\ isFetching' = FALSE
        /\ error' = FALSE
        /\ hasData' = TRUE
        /\ UNCHANGED <<searchParams, currentPage, filters, allPhysicians, allLoading, allError,
                       allPhysiciansDataAvailable, effectPending, inflight>>
        /\ MetaObserve
        /\ UNCHANGED serverVars

\* the paged query's queryFn throws (the request fails, or the route answers
\* with an error status) and the one retry fails too
pageReject ==
    /\ ~effectPending
    /\ isFetching
    /\ isFetching' = FALSE
    /\ error' = TRUE
    /\ UNCHANGED <<searchParams, currentPage, filters, lastData, hasData, allPhysicians,
                   allLoading, allError, allPhysiciansDataAvailable, effectPending, inflight>>
    /\ MetaObserve
    /\ UNCHANGED serverVars

\* the full-set effect (deps [isTrialFilterActive, searchParams]): the cleanup
\* of the previous run, then the body
runEffect ==
    /\ effectPending
    /\ effectPending' = FALSE
    /\ IF isTrialFilterActive /\ searchParams # <<>>
       THEN /\ allLoading' = TRUE
            /\ allError' = Null
            /\ allPhysiciansDataAvailable' = FALSE
            /\ inflight' = {[f EXCEPT !.cancelled = TRUE] : f \in inflight}
                              \cup {[sp |-> searchParams[1], cancelled |-> FALSE]}
            /\ UNCHANGED allPhysicians
       ELSE /\ allPhysicians' = <<>>
            /\ allError' = Null
            /\ allPhysiciansDataAvailable' = FALSE
            /\ inflight' = {[f EXCEPT !.cancelled = TRUE] : f \in inflight}
            /\ UNCHANGED allLoading
    /\ UNCHANGED <<searchParams, currentPage, filters, lastData, isFetching, error, hasData>>
    /\ MetaObserve
    /\ UNCHANGED serverVars

\* the effect's fetchResults(zipCode, radius, [], 1, startYear, endYear, true):
\* fetchResults has no seventh parameter
allFetch(f) ==
    fetchResults(f.sp.zipCode, f.sp.radius, <<>>, 1, f.sp.startYear, f.sp.endYear)

\* variant of allResolve: the cancelled flag is not looked at
allResolveIgnoreCancelled(f) ==
    /\ ~effectPending
    /\ f \in inflight
    /\ allFetch(f).ok
    /\ inflight' = inflight \ {f}
    /\ allPhysicians' = <<allFetch(f).physicians>>
    /\ allPhysiciansDataAvailable' = TRUE
    /\ allLoading' = FALSE
    /\ UNCHANGED <<searchParams, currentPage, filters, lastData, isFetching, error, hasData,
                   allError, effectPending>>
    /\ MetaObserve
    /\ UNCHANGED serverVars

\* .then and .finally of the effect's promise
allResolve(f) ==
    /\ ~effectPending
    /\ f \in inflight
    /\ allFetch(f).ok
    /\ inflight' = inflight \ {f}
    /\ IF ~f.cancelled
       THEN /\ allPhysicians' = <<allFetch(f).physicians>>
            /\ allPhysiciansDataAvailable' = TRUE
            /\ allLoading' = FALSE
       ELSE UNCHANGED <<allPhysicians, allPhysiciansDataAvailable, allLoading>>
    /\ UNCHANGED <<searchParams, currentPage, filters, lastData, isFetching, error, hasData,
                   allError, effectPending>>
    /\ MetaObserve
    /\ UNCHANGED serverVars

\* .catch and .finally of the effect's promise
allReject(f) ==
    /\ ~effectPending
    /\ f \in inflight
    /\ inflight' = inflight \ {f}
    /\ IF ~f.cancelled
       THEN /\ allError' = "Failed to fetch all results"
            /\ allPhysiciansDataAvailable' = FALSE
            /\ allLoading' = FALSE
       ELSE UNCHANGED <<allError, allPhysiciansDataAvailable, allLoading>>
    /\ UNCHANGED <<searchParams, currentPage, filters, lastData, isFetching, error, hasData,
                   allPhysicians, effectPending>>
    /\ MetaObserve
    /\ UNCHANGED serverVars

\* useTrialMeta's queryFn resolves for the observed key
metaResolve ==
    /\ ~effectPending
    /\ metaLoading
    /\ metaStatus' = "success"
    /\ metaData' = <<fetchTrialMeta(nctIds)>>
    /\ UNCHANGED <<searchParams, currentPage, filters, lastData, isFetching, error, hasData,
                   allPhysicians, allLoading, allError, allPhysiciansDataAvailable,
                   effectPending, inflight>>
    /\ UNCHANGED serverVars

\* useTrialMeta's queryFn throws (res.ok is false) for the observed key
metaReject ==
    /\ ~effectPending
    /\ metaLoading
    /\ metaStatus' = "error"
    /\ UNCHANGED metaData
    /\ UNCHANGED <<searchParams, currentPage, filters, lastData, isFetching, error, hasData,
                   allPhysicians, allLoading, allError, allPhysiciansDataAvailable,
                   effectPending, inflight>>
    /\ UNCHANGED serverVars

\* the held metadata result has passed its staleTime and is fetched again in
\* the background (isLoading stays false); the queryFn throws: the query is in
\* error and keeps its data
metaRefetchReject ==
    /\ ~effectPending
    /\ metaEnabled /\ metaStatus = "success"
    /\ metaStatus' = "error"
    /\ UNCHANGED metaData
    /\ UNCHANGED <<searchParams, currentPage, filters, lastData, isFetching, error, hasData,
                   allPhysicians, allLoading, allError, allPhysiciansDataAvailable,
                   effectPending, inflight>>
    /\ UNCHANGED serverVars

\* a failed metadata query is fetched again: one without data is pending
\* meanwhile, one that kept its data stays as it is until the fetch succeeds
metaRefetch ==
    /\ ~effectPending
    /\ metaError
    /\ IF metaData = <<>>
       THEN metaStatus' = "pending" /\ UNCHANGED metaData
       ELSE metaStatus' = "success" /\ metaData' = <<fetchTrialMeta(nctIds)>>
    /\ UNCHANGED <<searchParams, currentPage, filters, lastData, isFetching, error, hasData,
                   allPhysicians, allLoading, allError, allPhysiciansDataAvailable,
                   effectPending, inflight>>
    /\ UNCHANGED serverVars

Next ==
    \/ \E zipCode \in ZipInputs, startYear \in StartYearInputs, endYear \in EndYearInputs :
          handleSearch(zipCode, DEFAULT_RADIUS, startYear, endYear)
    \/ handlePageChange
    \/ setFilters
    \/ onRetryAll
    \/ refetch
    \/ pageRefetch
    \/ pageResolve
    \/ pageReject
    \/ runEffect
    \/ \E f \in inflight : allResolve(f)
    \/ \E f \in inflight : allReject(f)
    \/ metaResolve
    \/ metaReject
    \/ metaRefetchReject
    \/ metaRefetch

Spec == Init /\ [][Next]_vars

\* ------------------------------------------ the reconciler on its own
\* The render pipeline (filteredPhysicians, paginatedPhysicians, the totals)
\* as a function of its inputs: a candidate sequence held as the full set, an
\* active FilterCriteria, a metadata snapshot and a page number.
NctOthers == <<"NCT02", Null, "NCT03", "", "NCT04", "NCT05">>

\* every other candidate works on NCT01, the rest cycle through the others
candidate(i) ==
    [id |-> 100 + i,
     nctId |-> IF i % 2 = 1 THEN "NCT01"
               ELSE NctOthers[(((i \div 2) - 1) % Len(NctOthers)) + 1],
     startDate |-> 2100 - i]

Candidates(n) == [i \in 1..n |-> candidate(i)]

ReconcilePages == 1..(Ceil(MaxCandidates, ITEMS_PER_PAGE) + 1)

ActiveChoices ==
    {f \in FilterChoices : f.phases # {} \/ f.sponsorType # "Any" \/ f.recruitingOnly}

InitReconcile ==
    /\ searchParams = <<[zipCode |-> Z77030, radius |-> DEFAULT_RADIUS,
                         startYear |-> Undefined, endYear |-> Undefined]>>
    /\ currentPage = 1
    /\ filters \in {f \in ActiveChoices : f.sponsorType = "Any"}
    /\ lastData = <<>>
    /\ isFetching = FALSE
    /\ error = FALSE
    /\ hasData = FALSE
    /\ \E n \in 0..MaxCandidates : allPhysicians = <<Candidates(n)>>
    /\ allLoading = FALSE
    /\ allError = Null
    /\ allPhysiciansDataAvailable = TRUE
    /\ effectPending = FALSE
    /\ inflight = {}
    \* the metadata query of the candidates' identifiers: not enabled, failed
    \* without data, or holding the records of the identifiers the registry
    \* knows (settled, or failed on a later fetch)
    /\ IF ~metaEnabled
       THEN metaStatus = "pending" /\ metaData = <<>>
       ELSE \/ metaStatus = "error" /\ metaData = <<>>
            \/ /\ metaStatus \in {"success", "error"}
               /\ \E k \in 0..Len(NctOrder) :
                    metaData = <<SelectSeq(fetchTrialMeta(nctIds),
                                           LAMBDA tm : NctRank(tm.nctId) <= k)>>
    /\ ServerIdle

\* setCurrentPage
reconcilePage ==
    /\ \E page \in ReconcilePages : currentPage' = page
    /\ UNCHANGED <<searchParams, filters, lastData, isFetching, error, hasData,
                   allPhysicians, allLoading, allError, allPhysiciansDataAvailable,
                   effectPending, inflight, metaStatus, metaData>>
    /\ UNCHANGED serverVars

\* setFilters with one constraint of the criteria flipped, staying non-identity
reconcileFilters ==
    /\ \E f \in {[filters EXCEPT !.recruitingOnly = ~@],
                 [filters EXCEPT !.sponsorType = IF @ = "Any" THEN "Industry" ELSE "Any"]} :
          /\ f \in ActiveChoices
          /\ filters' = f
    /\ UNCHANGED <<searchParams, currentPage, lastData, isFetching, error, hasData,
                   allPhysicians, allLoading, allError, allPhysiciansDataAvailable,
                   effectPending, inflight, metaStatus, metaData>>
    /\ UNCHANGED serverVars

NextReconcile == reconcilePage \/ reconcileFilters

SpecReconcile == InitReconcile /\ [][NextReconcile]_vars

\* ====================================================== /api/trial-meta
\* Identifiers are texts here (the endpoint splits and trims them); a study
\* identifier is NCT and eight digits.
MAX_BATCH == 100
MAX_URL_LENGTH == 1800

NctId(k) ==
    <<"N", "C", "T">> \o
    [i \in 1..8 |-> IF i <= 5 THEN "0" ELSE DigitChar((k \div Pow10(8 - i)) % 10)]

\* the number of a well-formed identifier, 0 for any other text
IdNumber(id) ==
    IF Len(id) = 11 /\ SubSeq(id, 1, 3) = <<"N", "C", "T">> /\ AllDigits(SubSeq(id, 4, 11))
    THEN Number(SubSeq(id, 4, 11)) ELSE 0

IdsFromTo(a, b) == [k \in 1..(b - a + 1) |-> NctId(a + k - 1)]

Reverse(s) == [i \in 1..Len(s) |-> s[Len(s) + 1 - i]]

\* ids.slice(lo - 1, hi).join(",")
RECURSIVE JoinRange(_, _, _)
JoinRange(ids, lo, hi) ==
    IF lo > hi THEN <<>>
    ELSE IF lo = hi THEN ids[lo]
    ELSE LET mid == (lo + hi) \div 2
         IN  JoinRange(ids, lo, mid) \o <<",">> \o JoinRange(ids, mid + 1, hi)

join(ids) == JoinRange(ids, 1, Len(ids))

\* s.split(","): the pieces between the commas, in order
split(s) ==
    LET n == Len(s)
        commas == {i \in 1..n : s[i] = ","}
        m == Cardinality(commas)
        rank == [c \in commas |-> Cardinality({d \in commas : d < c}) + 1]
        byRank == [k \in 1..m |-> CHOOSE c \in commas : rank[c] = k]
    IN  [k \in 1..(m + 1) |->
            SubSeq(s, IF k = 1 THEN 1 ELSE byRank[k - 1] + 1,
                      IF k = m + 1 THEN n ELSE byRank[k] - 1)]

\* s.trim(), the white space being the blank
trim(s) ==
    LET n == Len(s)
        inked == {i \in 1..n : s[i] # " "}
    IN  IF inked = {} THEN <<>>
        ELSE SubSeq(s, CHOOSE i \in inked : \A j \in inked : i <= j,
                       CHOOSE i \in inked : \A j \in inked : i >= j)

\* the elements of s in the order of their first occurrence
RECURSIVE DistinctRange(_, _, _)
DistinctRange(s, lo, hi) ==
    IF lo > hi THEN <<>>
    ELSE IF lo = hi THEN <<s[lo]>>
    ELSE LET mid == (lo + hi) \div 2
             l == DistinctRange(s, lo, mid)
             r == DistinctRange(s, mid + 1, hi)
             seen == {l[i] : i \in 1..Len(l)}
         IN  l \o SelectSeq(r, LAMBDA x : x \notin seen)

Distinct(s) == DistinctRange(s, 1, Len(s))

\* ---------------------------------------------- ClinicalTrials.gov (upstream)
\* CtStudy of the study numbered k; an optional member is <<>> when absent
\* and <<v>> when present.
ctStudy(k) ==
    [nctId |-> NctId(k),
     phases |->
        CASE k % 8 = 0 -> <<>>
          [] k % 8 = 1 -> << <<<<"P", "H", "A", "S", "E", "2">>>> >>
          [] k % 8 = 2 -> << <<<<"P", "H", "A", "S", "E", "1">>, <<"P", "H", "A", "S", "E", "2">>>> >>
          [] k % 8 = 3 -> << <<<<"N", "A">>, <<"P", "H", "A", "S", "E", "3">>>> >>
          [] k % 8 = 4 -> << <<>> >>
          [] k % 8 = 5 -> << <<<<"E", "A", "R", "L", "Y", "_", "P", "H", "A", "S", "E", "1">>>> >>
          [] k % 8 = 6 -> << <<<<"P", "H", "A", "S", "E", "2", "/", "P", "H", "A", "S", "E", "3">>, <<"P", "H", "A", "S", "E", "1">>>> >>
          [] OTHER     -> << <<<<"P", "H", "A", "S", "E", "0">>>> >>,
     class |->
        CASE k % 3 = 0 -> <<>>
          [] k % 3 = 1 -> <<<<"I", "N", "D", "U", "S", "T", "R", "Y">> >>
          [] OTHER     -> << <<"N", "I", "H">> >>,
     overallStatus |->
        CASE k % 4 = 0 -> <<>>
          [] k % 4 = 1 -> << <<"R", "E", "C", "R", "U", "I", "T", "I", "N", "G">> >>
          [] k % 4 = 2 -> << <<"C", "O", "M", "P", "L", "E", "T", "E", "D">> >>
          [] OTHER     -> << <<"N", "O", "T", "_", "Y", "E", "T", "_", "R", "E", "C", "R", "U", "I", "T", "I", "N", "G">> >>]

\* the upstream knows the well-formed identifiers but every seventh
ctKnown(id) == IdNumber(id) > 0 /\ IdNumber(id) % 7 # 0

\* the studies matching filter.ids, each once
ctMatches(batch) ==
    LET known == SelectSeq(Distinct(batch), ctKnown)
    IN  [i \in 1..Len(known) |-> ctStudy(IdNumber(known[i]))]

\* the page of a 200 answer: pageToken is the number of studies served before
ctPage(batch, pageSize, pageToken) ==
    LET all == ctMatches(batch)
        size == Min(pageSize, ctPageLimit)
        upTo == Min(pageToken + size, Len(all))
    IN  [studies |-> SubSeq(all, pageToken + 1, upTo),
         nextPageToken |-> IF upTo < Len(all) THEN upTo ELSE Undefined]

\* ------------------------------------------------------- fetchTrialMeta
\* variant of phaseOf: any digit matches
phaseOfAnyDigit(raw) ==
    LET hits == {i \in 1..Len(raw) : raw[i] \in Digits}
    IN  IF hits = {} THEN "NA" ELSE raw[CHOOSE i \in hits : \A j \in hits : i <= j]

\* raw.match(/[1-4]/): the first character in 1..4, or NA
phaseOf(raw) ==
    LET hits == {i \in 1..Len(raw) : raw[i] \in {"1", "2", "3", "4"}}
    IN  IF hits = {} THEN "NA" ELSE raw[CHOOSE i \in hits : \A j \in hits : i <= j]

\* out.map: the trimmed record of a study
trimStudy(st) ==
    [nctId |-> st.nctId,
     phase |-> phaseOf(IF st.phases # <<>> /\ Len(st.phases[1]) > 0
                       THEN st.phases[1][1] ELSE <<"N", "A">>),
     fundedBy |-> IF st.class # <<>> THEN st.class[1] ELSE NullText,
     overallStatus |-> IF st.overallStatus # <<>> THEN st.overallStatus[1] ELSE NullText]

\* variant of batchAt: the slice is one identifier too long
batchAtOneMore(ids, i) == Slice(ids, i, i + MAX_BATCH + 1)

\* ids.slice(i, i + MAX_BATCH)
batchAt(ids, i) == Slice(ids, i, i + MAX_BATCH)

\* --------------------------------------------------------- useTrialMeta
TRIAL_META_URL == <<"/", "a", "p", "i", "/", "t", "r", "i", "a", "l", "-", "m", "e", "t", "a", "?", "i", "d", "s", "=">>

\* variant of shouldPost: the limit itself is already too long
shouldPostAtLimit(ids) == Len(TRIAL_META_URL \o join(ids)) >= MAX_URL_LENGTH

\* `/api/trial-meta?ids=${queryString}`.length > 1800
shouldPost(ids) == Len(TRIAL_META_URL \o join(ids)) > MAX_URL_LENGTH

\* the identifier lists a caller may hold
TmIdLists ==
    { <<>>,
      <<NctId(1)>>,
      <<NctId(1), NctId(2)>>,
      <<NctId(2), NctId(1)>>,
      <<NctId(1), NctId(1), NctId(2)>>,
      <<NctId(7), NctId(3)>>,
      << <<" ">> \o NctId(1) >>,
      << <<" ">> >>,
      << NctId(1), <<>> >>,
      IdsFromTo(1, 100),
      IdsFromTo(1, 101),
      IdsFromTo(1, 150),
      Reverse(IdsFromTo(1, 150)),
      IdsFromTo(1, 150) \o IdsFromTo(1, 60),
      IdsFromTo(1, 148) \o << <<"N", "C", "T", "1">> >>,
      IdsFromTo(1, 148) \o << <<"N", "C", "T", "1", "2">> >> }

\* enabled: ids.length > 0; the queryFn sends the request
useTrialMetaQueryFn ==
    /\ gwPc = "idle" /\ tmRequest = <<>>
    /\ tmCaller = "useTrialMeta"
    /\ Len(tmIds) > 0
    /\ tmRequest' = <<IF shouldPost(tmIds)
                      THEN [method |-> "POST", query |-> NullText, body |-> tmIds]
                      ELSE [method |-> "GET", query |-> join(tmIds), body |-> <<>>]>>
    /\ gwPc' = "route"
    /\ UNCHANGED <<routeReq, routeRes, tmCaller, tmIds, tmResponse, gwIds, gwI, gwPageToken,
                   gwOut, gwLog, ctPageLimit>>
    /\ UNCHANGED pageVars

\* a client of its own calls the endpoint in the form it chooses
directCall ==
    /\ gwPc = "idle" /\ tmRequest = <<>>
    /\ tmCaller \in {"GET", "POST"}
    /\ tmRequest' = <<IF tmCaller = "POST"
                      THEN [method |-> "POST", query |-> NullText, body |-> tmIds]
                      ELSE [method |-> "GET", query |-> join(tmIds), body |-> <<>>]>>
    /\ gwPc' = "route"
    /\ UNCHANGED <<routeReq, routeRes, tmCaller, tmIds, tmResponse, gwIds, gwI, gwPageToken,
                   gwOut, gwLog, ctPageLimit>>
    /\ UNCHANGED pageVars

\* GET: idsParam.split(",").map(trim).filter(nonempty)
idsOfGET(query) ==
    LET idsParam == IF query = NullText THEN <<>> ELSE query
        pieces == split(idsParam)
        trimmed == [i \in 1..Len(pieces) |-> trim(pieces[i])]
    IN  SelectSeq(trimmed, LAMBDA id : Len(id) > 0)

\* POST: body.ids.filter(Boolean)
idsOfPOST(body) == SelectSeq(body, LAMBDA id : Len(id) > 0)

\* the handler up to the call of fetchTrialMeta
trialMetaRoute(ids) ==
    /\ IF Len(ids) = 0
       THEN /\ tmResponse' = <<[status |-> 400, body |-> <<>>]>>
            /\ gwPc' = "done"
            /\ UNCHANGED gwIds
       ELSE /\ gwIds' = ids
            /\ gwPc' = "fetch"
            /\ UNCHANGED tmResponse
    /\ gwI' = 0
    /\ gwPageToken' = Undefined
    /\ gwOut' = <<>>
    /\ UNCHANGED <<routeReq, routeRes, tmCaller, tmIds, tmRequest, gwLog, ctPageLimit>>
    /\ UNCHANGED pageVars

trialMetaGET ==
    /\ gwPc = "route"
    /\ tmRequest[1].method = "GET"
    /\ trialMetaRoute(idsOfGET(tmRequest[1].query))

trialMetaPOST ==
    /\ gwPc = "route"
    /\ tmRequest[1].method = "POST"
    /\ trialMetaRoute(idsOfPOST(tmRequest[1].body))

\* variant of ctFetchOk: the batch is left after its first page
ctFetchOkFirstPageOnly ==
    LET batch == batchAt(gwIds, gwI)
        page == ctPage(batch, Len(batch), gwPageToken)
        out == gwOut \o page.studies
        i == gwI + MAX_BATCH
        finished == ~(i < Len(gwIds))
    IN  /\ gwPc = "fetch"
        /\ gwLog' = Append(gwLog, [i |-> gwI, ids |-> batch, pageSize |-> Len(batch),
                                   pageToken |-> gwPageToken, outcome |-> "ok",
                                   studies |-> page.studies,
                                   nextPageToken |-> page.nextPageToken])
        /\ gwOut' = out
        /\ gwPageToken' = Undefined
        /\ gwI' = i
        /\ IF finished
           THEN /\ gwPc' = "done"
                /\ tmResponse' = <<[status |-> 200,
                                    body |-> [k \in 1..Len(out) |-> trimStudy(out[k])]]>>
           ELSE /\ gwPc' = "fetch"
                /\ UNCHANGED tmResponse
        /\ UNCHANGED <<routeReq, routeRes, tmCaller, tmIds, tmRequest, gwIds, ctPageLimit>>
        /\ UNCHANGED pageVars

\* one turn of the do-while: the request of the current batch and page, and
\* a 200 answer to it
ctFetchOk ==
    LET batch == batchAt(gwIds, gwI)
        page == ctPage(batch, Len(batch), gwPageToken)
        out == gwOut \o page.studies
        lastPage == page.nextPageToken = Undefined
        i == IF lastPage THEN gwI + MAX_BATCH ELSE gwI
        finished == lastPage /\ ~(i < Len(gwIds))
    IN  /\ gwPc = "fetch"
        /\ gwLog' = Append(gwLog, [i |-> gwI, ids |-> batch, pageSize |-> Len(batch),
                                   pageToken |-> gwPageToken, outcome |-> "ok",
                                   studies |-> page.studies,
                                   nextPageToken |-> page.nextPageToken])
        /\ gwOut' = out
        /\ gwPageToken' = page.nextPageToken
        /\ gwI' = i
        /\ IF finished
           THEN /\ gwPc' = "done"
                /\ tmResponse' = <<[status |-> 200,
                                    body |-> [k \in 1..Len(out) |-> trimStudy(out[k])]]>>
           ELSE /\ gwPc' = "fetch"
                /\ UNCHANGED tmResponse
        /\ UNCHANGED <<routeReq, routeRes, tmCaller, tmIds, tmRequest, gwIds, ctPageLimit>>
        /\ UNCHANGED pageVars

\* variant of ctFetchNotOk: the records fetched so far are sent with the error
ctFetchNotOkKeepPartial ==
    LET batch == batchAt(gwIds, gwI)
    IN  /\ gwPc = "fetch"
        /\ gwLog' = Append(gwLog, [i |-> gwI, ids |-> batch, pageSize |-> Len(batch),
                                   pageToken |-> gwPageToken, outcome |-> "notOk",
                                   studies |-> <<>>, nextPageToken |-> Undefined])
        /\ gwPc' = "done"
        /\ tmResponse' = <<[status |-> 502,
                            body |-> [k \in 1..Len(gwOut) |-> trimStudy(gwOut[k])]]>>
        /\ UNCHANGED <<routeReq, routeRes, tmCaller, tmIds, tmRequest, gwIds, gwI,
                       gwPageToken, gwOut, ctPageLimit>>
        /\ UNCHANGED pageVars

\* the request of the current batch and page is answered with !res.ok: the
\* throw leaves the loops, the handler's catch answers 502
ctFetchNotOk ==
    LET batch == batchAt(gwIds, gwI)
    IN  /\ gwPc = "fetch"
        /\ gwLog' = Append(gwLog, [i |-> gwI, ids |-> batch, pageSize |-> Len(batch),
                                   pageToken |-> gwPageToken, outcome |-> "notOk",
                                   studies |-> <<>>, nextPageToken |-> Undefined])
        /\ gwPc' = "done"
        /\ tmResponse' = <<[status |-> 502, body |-> <<>>]>>
        /\ UNCHANGED <<routeReq, routeRes, tmCaller, tmIds, tmRequest, gwIds, gwI,
                       gwPageToken, gwOut, ctPageLimit>>
        /\ UNCHANGED pageVars

\* the request itself fails (fetch rejects): the handler's catch answers 500
ctFetchThrows ==
    LET batch == batchAt(gwIds, gwI)
    IN  /\ gwPc = "fetch"
        /\ gwLog' = Append(gwLog, [i |-> gwI, ids |-> batch, pageSize |-> Len(batch),
                                   pageToken |-> gwPageToken, outcome |-> "threw",
                                   studies |-> <<>>, nextPageToken |-> Undefined])
        /\ gwPc' = "done"
        /\ tmResponse' = <<[status |-> 500, body |-> <<>>]>>
        /\ UNCHANGED <<routeReq, routeRes, tmCaller, tmIds, tmRequest, gwIds, gwI,
                       gwPageToken, gwOut, ctPageLimit>>
        /\ UNCHANGED pageVars

\* the page is at rest while the endpoint is looked at
PageAtRest ==
    /\ searchParams = <<>>
    /\ currentPage = 1
    /\ filters = DEFAULT_FILTERS
    /\ lastData = <<>>
    /\ isFetching = FALSE
    /\ error = FALSE
    /\ hasData = FALSE
    /\ allPhysicians = <<>>
    /\ allLoading = FALSE
    /\ allError = Null
    /\ allPhysiciansDataAvailable = FALSE
    /\ effectPending = FALSE
    /\ inflight = {}
    /\ metaStatus = "pending"
    /\ metaData = <<>>

InitMeta ==
    /\ PageAtRest
    /\ routeReq = <<>>
    /\ routeRes = <<>>
    /\ tmCaller \in {"useTrialMeta", "GET", "POST"}
    /\ tmIds \in TmIdLists
    /\ tmRequest = <<>>
    /\ tmResponse = <<>>
    /\ gwPc = "idle"
    /\ gwIds = <<>>
    /\ gwI = 0
    /\ gwPageToken = Undefined
    /\ gwOut = <<>>
    /\ gwLog = <<>>
    /\ ctPageLimit \in {40, 1000}

NextMeta ==
    \/ useTrialMetaQueryFn
    \/ directCall
    \/ trialMetaGET
    \/ trialMetaPOST
    \/ ctFetchOk
    \/ ctFetchNotOk
    \/ ctFetchThrows

SpecMeta == InitMeta /\ [][NextMeta]_vars

\* every upstream request is answered, one way or another
SpecMetaFair == SpecMeta /\ WF_vars(ctFetchThrows \/ ctFetchNotOk \/ ctFetchOk)

\* ================================================== /api/investigators alone
\* the query parameters a client of its own may send; NullText: not sent
RouteZips == {NullText, Z77030, Z99999, <<"7", "7", "0", "3">>, <<"7", "7", "0", "3", "a">>}
RouteYears ==
    {NullText, <<>>, <<"2", "0", "1", "9">>, <<"2", "0", "2", "1">>, <<"0", "0", "0", "0">>,
     <<"1", "9">>, <<"2", "0", "2", "1", "1">>}
RouteRequests ==
    [zip : RouteZips, radius : {NullText, <<"1", "5">>}, page : {NullText, <<"2">>},
     startYear : RouteYears, endYear : RouteYears]

\* one request to the endpoint and its answer
investigatorsGET(req) ==
    /\ routeReq = <<>>
    /\ routeReq' = <<req>>
    /\ routeRes' = <<GET(req)>>
    /\ UNCHANGED <<tmCaller, tmIds, tmRequest, tmResponse, gwPc, gwIds, gwI, gwPageToken,
                   gwOut, gwLog, ctPageLimit>>
    /\ UNCHANGED pageVars

InitRoute == PageAtRest /\ ServerIdle

NextRoute == \E req \in RouteRequests : investigatorsGET(req)

SpecRoute == InitRoute /\ [][NextRoute]_vars

\* ================================================================== claims
Elems(seq) == {seq[i] : i \in 1..Len(seq)}

NoTrialId(p) == p.nctId = Null \/ p.nctId = ""

HasRecord(p) == \E i \in 1..Len(trialMeta) : trialMeta[i].nctId = p.nctId

\* sub[i..] can be matched, in order, within seq[j..]
RECURSIVE MatchFrom(_, _, _, _)
MatchFrom(sub, seq, i, j) ==
    IF i > Len(sub) THEN TRUE
    ELSE IF j > Len(seq) THEN FALSE
    ELSE IF sub[i] = seq[j] THEN MatchFrom(sub, seq, i + 1, j + 1)
    ELSE MatchFrom(sub, seq, i, j + 1)

IsSubsequence(sub, seq) == MatchFrom(sub, seq, 1, 1)

\* the page of the current search the route serves for the current page number
serverPage ==
    LET sp == searchParams[1]
    IN  fetchResults(sp.zipCode, sp.radius, <<>>, currentPage, sp.startYear, sp.endYear)

\* every investigator the route serves for the current search, over all pages
serverAll ==
    LET sp == searchParams[1]
        first == fetchResults(sp.zipCode, sp.radius, <<>>, 1, sp.startYear, sp.endYear)
    IN  UNION {Elems(fetchResults(sp.zipCode, sp.radius, <<>>, page,
                                  sp.startYear, sp.endYear).physicians) :
               page \in 1..Ceil(first.totalCount, ITEMS_PER_PAGE)}

\* C1: in filtered mode, once the full-set fetch has succeeded, the candidate
\* pool that is filtered and paginated holds every investigator matching the
\* current query over all server pages, not one page of ITEMS_PER_PAGE.
C1_FullCandidatePool ==
    (isTrialFilterActive /\ allPhysicians # <<>> /\ ~effectPending /\ searchParams # <<>>)
        => serverAll \subseteq Elems(base)

\* p satisfies every active constraint of the criteria by some metadata record
Satisfies(p) ==
    \E i \in 1..Len(trialMeta) :
        LET tm == trialMeta[i]
        IN  /\ tm.nctId = p.nctId
            /\ (filters.phases # {} => tm.phase \in filters.phases)
            /\ (filters.sponsorType = "Industry" =>
                    /\ tm.fundedBy # NullText
                    /\ toLowerCase(tm.fundedBy) = <<"i", "n", "d", "u", "s", "t", "r", "y">>)
            /\ (filters.recruitingOnly =>
                    /\ tm.overallStatus # NullText
                    /\ Len(tm.overallStatus) >= 7
                    /\ toLowerCase(SubSeq(tm.overallStatus, 1, 7))
                         = <<"r", "e", "c", "r", "u", "i", "t">>)

\* C2: for a non-identity FilterCriteria the filtered output is an
\* order-preserving subsequence of the candidate sequence, and every element
\* of it has a metadata record and satisfies all active constraints.
C2_FilteredIsSatisfyingSubsequence ==
    isTrialFilterActive =>
        /\ IsSubsequence(filteredPhysicians, base)
        /\ \A i \in 1..Len(filteredPhysicians) : Satisfies(filteredPhysicians[i])

C2_Witness ==
    /\ isTrialFilterActive
    /\ filters.recruitingOnly /\ filters.sponsorType = "Industry"
    /\ Len(filteredPhysicians) >= 2
    /\ Len(filteredPhysicians) < Len(base)

\* C3: an investigator without an external trial identifier (null or empty
\* nctId) is never displayed under a non-identity FilterCriteria, and is
\* displayed whenever it is on the server page and the criteria are identity.
C3_NoTrialIdExcludedIffFiltering ==
    /\ isTrialFilterActive =>
          \A i \in 1..Len(displayPhysicians) : ~NoTrialId(displayPhysicians[i])
    /\ ~isTrialFilterActive =>
          \A i \in 1..Len(dataPhysicians) :
              NoTrialId(dataPhysicians[i]) => dataPhysicians[i] \in Elems(displayPhysicians)

C3_Witness ==
    /\ isTrialFilterActive
    /\ allPhysicians # <<>>
    /\ \E p \in Elems(base) : NoTrialId(p)
    /\ Len(displayPhysicians) > 0

\* C4: fail-closed attribution: under a non-identity FilterCriteria nobody
\* whose nctId has no record in the metadata lookup is in the filtered list or
\* in the display, also when recruiting-only is the only active constraint.
C4_FailClosed ==
    isTrialFilterActive =>
        /\ \A p \in Elems(filteredPhysicians) : HasRecord(p)
        /\ \A p \in Elems(displayPhysicians) : HasRecord(p)

C4_Witness ==
    /\ filters = [phases |-> {}, sponsorType |-> "Any", recruitingOnly |-> TRUE]
    /\ currentPage = 2
    /\ \E p \in Elems(base) : ~NoTrialId(p) /\ ~HasRecord(p)
    /\ Len(displayPhysicians) > 0

\* C5: with the identity FilterCriteria the displayed list is the page held by
\* the paged query, verbatim, the totals are the server's totalCount and
\* ceil(totalCount / ITEMS_PER_PAGE), whatever the metadata and whatever full
\* set is still held; once the paged query has settled that page is the one
\* the route serves for the current search and page number.
C5_IdentityShowsServerPage ==
    ~isTrialFilterActive =>
        /\ displayPhysicians = dataPhysicians
        /\ totalCountToShow = dataTotalCount
        /\ totalPagesToShow = Ceil(dataTotalCount, ITEMS_PER_PAGE)
        /\ (searchParams # <<>> /\ ~isFetching /\ ~error) =>
              /\ serverPage.ok
              /\ dataPhysicians = serverPage.physicians
              /\ dataTotalCount = serverPage.totalCount

C5_Witness ==
    /\ ~isTrialFilterActive
    /\ allPhysicians # <<>>
    /\ Len(displayPhysicians) > 0
    /\ allPhysicians[1] # dataPhysicians

\* pages 1..k of list, one after the other
RECURSIVE ConcatPages(_, _)
ConcatPages(list, k) ==
    IF k = 0 THEN <<>> ELSE ConcatPages(list, k - 1) \o paginate(list, k)

\* C6: in filtered mode the reported total is the length of the filtered
\* sequence, the display is elements (k-1)*ITEMS_PER_PAGE .. k*ITEMS_PER_PAGE-1
\* of it for the current page k, and pages 1..ceil(total/ITEMS_PER_PAGE) one
\* after the other are the filtered sequence, nothing lost or repeated.
C6_FilteredPagination ==
    isTrialFilterActive =>
        LET fl == filteredPhysicians
            first == (currentPage - 1) * ITEMS_PER_PAGE
            count == Max(0, Min(ITEMS_PER_PAGE, Len(fl) - first))
        IN  /\ totalCountToShow = Len(fl)
            /\ totalPagesToShow = Ceil(Len(fl), ITEMS_PER_PAGE)
            /\ displayPhysicians = [i \in 1..count |-> fl[first + i]]
            /\ ConcatPages(fl, totalPagesToShow) = fl
            /\ \A k \in 1..totalPagesToShow : Len(paginate(fl, k)) >= 1

C6_Witness ==
    /\ isTrialFilterActive
    /\ Len(filteredPhysicians) > ITEMS_PER_PAGE
    /\ currentPage = 2
    /\ Len(displayPhysicians) > 0

\* C7: after the full-set fetch has failed under a non-identity
\* FilterCriteria the error state is set and the displayed list is empty (no
\* fallback to the paged data).
C7_NoFallbackAfterFullSetFailure ==
    (isTrialFilterActive /\ allError # Null) =>
        /\ allErrorShown
        /\ Len(displayPhysicians) = 0

\* C8: when the metadata fetch of the observed identifiers has failed under a
\* non-identity FilterCriteria, the filtered result is empty, the total is 0
\* and the metadata warning is shown.
C8_MetadataFailureEmptiesFilteredResult ==
    (isTrialFilterActive /\ metaEnabled /\ metaStatus = "error") =>
        /\ filteredPhysicians = <<>>
        /\ displayPhysicians = <<>>
        /\ totalCountToShow = 0
        /\ metaWarningShown

\* C9: in unfiltered mode a metadata fetch that is pending or has failed
\* leaves the display alone: the server page is shown in full with the
\* server's total, the cards are rendered, and a failure shows the warning.
C9_MetadataNeverBlocksUnfiltered ==
    (~isTrialFilterActive /\ (metaLoading \/ metaError)) =>
        /\ displayPhysicians = dataPhysicians
        /\ totalCountToShow = dataTotalCount
        /\ (~isSearching /\ Len(dataPhysicians) > 0) => resultsView = "cards"
        /\ metaError => metaWarningShown

C9_Witness ==
    /\ ~isTrialFilterActive
    /\ metaError
    /\ ~isSearching
    /\ Len(displayPhysicians) > 0
    /\ resultsView = "cards"

\* a submission of the search form
SearchSubmitted(zipCode, startYear, endYear) ==
    handleSearch(zipCode, DEFAULT_RADIUS, startYear, endYear)

\* C10: every search submission resets FilterCriteria to the identity value,
\* an accepted one puts the page at 1; the search never changes without that;
\* and once the effect has run in unfiltered mode no full set is held.
C10_SearchResetsFilters ==
    /\ [](~isTrialFilterActive /\ ~effectPending => allPhysicians = <<>>)
    /\ [][ /\ \A zipCode \in ZipInputs, startYear \in StartYearInputs,
                 endYear \in EndYearInputs :
                 \/ /\ filters' = DEFAULT_FILTERS
                    /\ ~isTrialFilterActive'
                    /\ (Len(zipCode) = 5 => currentPage' = 1 /\ searchParams' # <<>>)
                 \/ ~SearchSubmitted(zipCode, startYear, endYear)
           /\ searchParams' # searchParams =>
                 filters' = DEFAULT_FILTERS /\ currentPage' = 1 ]_vars

\* a search submitted from filtered mode on a later page: the filter is
\* reset, the previous full set still held until the effect runs
C10_Witness ==
    /\ effectPending
    /\ isFetching
    /\ ~isTrialFilterActive
    /\ allPhysicians # <<>>
    /\ currentPage = 1

\* C11: last request wins for the full-set fetch: a fetch whose effect run
\* has been cleaned up (a new search, or filtered mode left) changes none of
\* allPhysicians, allError, allPhysiciansDataAvailable when it settles, and
\* once the effect has run the full set held, if any, is the one fetched for
\* the current search parameters.
C11_LastRequestWins ==
    /\ []((~effectPending /\ allPhysicians # <<>>) =>
            /\ searchParams # <<>>
            /\ allPhysicians[1] =
                   allFetch([sp |-> searchParams[1], cancelled |-> FALSE]).physicians)
    /\ [][\A f \in inflight :
             \/ UNCHANGED <<allPhysicians, allError, allPhysiciansDataAvailable>>
             \/ ~f.cancelled
             \/ ~(allResolve(f) \/ allReject(f))]_vars

\* a cancelled fetch has settled: nothing is in flight, allLoading is still
\* set by the run that started it, and no full set is held
C11_Witness ==
    /\ ~effectPending
    /\ searchParams # <<>>
    /\ inflight = {}
    /\ allLoading
    /\ allPhysicians = <<>>
    /\ allError = Null

\* ------------------------------------------------------------------ C12
\* the batches of a fetch: the offsets i at which an upstream request was made
BatchesIssued == {gwLog[k].i : k \in 1..Len(gwLog)}

FetchSucceeded == gwPc = "done" /\ tmResponse # <<>> /\ tmResponse[1].status = 200

\* C12: a fetch for a list with n distinct identifiers issues exactly
\* ceil(n / 100) batches, whatever the order and the duplicates of the list.
C12_BatchesByDistinctIds ==
    FetchSucceeded =>
        Cardinality(BatchesIssued) = Ceil(Cardinality(Elems(gwIds)), MAX_BATCH)

\* ------------------------------------------------------------------ C13
\* C13: the output of a fetch holds at most one record per distinct
\* identifier of the input list, and only records of input identifiers.
C13_OneRecordPerIdentifier ==
    FetchSucceeded =>
        LET body == tmResponse[1].body
        IN  /\ \A a, b \in 1..Len(body) : body[a].nctId = body[b].nctId => a = b
            /\ \A a \in 1..Len(body) : body[a].nctId \in Elems(gwIds)

\* ------------------------------------------------------------------ C14
\* C14: an upstream request that does not succeed is the last request of the
\* fetch, and the endpoint answers with an error alone, none of the records
\* fetched before: status 502 for a non-success answer, 500 for any other
\* failure.
C14_UpstreamFailureAborts ==
    \A k \in 1..Len(gwLog) :
        gwLog[k].outcome # "ok" =>
            /\ k = Len(gwLog)
            /\ gwPc = "done"
            /\ tmResponse = <<[status |-> IF gwLog[k].outcome = "notOk" THEN 502 ELSE 500,
                               body |-> <<>>]>>

\* a later batch fails after an earlier one brought records
C14_Witness ==
    /\ Len(gwLog) >= 2
    /\ gwLog[Len(gwLog)].outcome = "notOk"
    /\ gwLog[Len(gwLog)].i > 0
    /\ Len(gwOut) > 0
    /\ tmResponse # <<>> /\ tmResponse[1].status = 502

\* ------------------------------------------------------------------ C15
\* the studies of the first k requests, in request order
RECURSIVE StudiesUpTo(_)
StudiesUpTo(k) == IF k = 0 THEN <<>> ELSE StudiesUpTo(k - 1) \o gwLog[k].studies

\* C15: the first request of a batch carries no token; a request that follows
\* an answer with a token is for the same batch and carries that token; a new
\* batch, the next one, starts only after an answer without token; the output
\* is the records of all answers in request order; and a fetch that has
\* started ends.
C15_PagesFollowedToTheEnd ==
    /\ [](\A k \in 1..Len(gwLog) :
            /\ (k = 1 \/ gwLog[k].i # gwLog[k - 1].i) => gwLog[k].pageToken = Undefined
            /\ (k > 1 /\ gwLog[k - 1].nextPageToken # Undefined) =>
                  /\ gwLog[k].i = gwLog[k - 1].i
                  /\ gwLog[k].pageToken = gwLog[k - 1].nextPageToken
            /\ (k > 1 /\ gwLog[k].i # gwLog[k - 1].i) =>
                  /\ gwLog[k - 1].nextPageToken = Undefined
                  /\ gwLog[k].i = gwLog[k - 1].i + MAX_BATCH
            /\ gwLog[k].i < Len(gwIds))
    /\ [](gwOut = StudiesUpTo(Len(gwLog)))
    /\ [](FetchSucceeded =>
            /\ tmResponse[1].body = [k \in 1..Len(gwOut) |-> trimStudy(gwOut[k])]
            /\ gwLog[Len(gwLog)].nextPageToken = Undefined
            /\ gwLog[Len(gwLog)].i + MAX_BATCH >= Len(gwIds))
    /\ (gwPc = "fetch" ~> gwPc = "done")

\* a fetch of several batches, one of them in several pages, has succeeded
C15_Witness ==
    /\ FetchSucceeded
    /\ Cardinality(BatchesIssued) >= 2
    /\ \E k \in 1..Len(gwLog) : gwLog[k].pageToken # Undefined
    /\ Len(gwOut) > 0

\* ------------------------------------------------------------------ C16
\* the list the handler of the other form parses from the same tmIds
ParsedByOtherForm ==
    IF tmCaller = "GET" THEN idsOfPOST(tmIds) ELSE idsOfGET(join(tmIds))

\* C16: a request in one form is parsed to the list the other form would
\* parse for the same identifiers (hence the same batches and the same
\* records), and is refused with 400 exactly when the other form would be.
C16_TransportEquivalence ==
    (tmCaller \in {"GET", "POST"} /\ gwPc \in {"fetch", "done"}) =>
        IF Len(ParsedByOtherForm) = 0
        THEN tmResponse = <<[status |-> 400, body |-> <<>>]>>
        ELSE gwIds = ParsedByOtherForm

\* ------------------------------------------------------------------ C17
\* the length of /api/trial-meta?ids=<ids joined by commas>: 20 characters,
\* those of the identifiers and one comma between two of them
UrlLength(ids) ==
    20 + Cardinality({p \in (1..Len(ids)) \X (1..12) : p[2] <= Len(ids[p[1]])})
       + (IF Len(ids) = 0 THEN 0 ELSE Len(ids) - 1)

\* C17: the hook sends the body form exactly when the query-string URL would
\* be longer than 1800 characters and the query-string form otherwise, never a
\* query-string URL longer than 1800, and nothing for an empty list.
C17_PostExactlyWhenUrlTooLong ==
    tmCaller = "useTrialMeta" =>
        /\ Len(tmIds) = 0 => tmRequest = <<>>
        /\ tmRequest # <<>> =>
              /\ tmRequest[1].method = "POST" <=> UrlLength(tmIds) > 1800
              /\ tmRequest[1].method = "GET" <=> UrlLength(tmIds) <= 1800
              /\ tmRequest[1].method = "GET" =>
                    /\ 20 + Len(tmRequest[1].query) <= 1800
                    /\ 20 + Len(tmRequest[1].query) = UrlLength(tmIds)
              /\ tmRequest[1].method = "POST" => tmRequest[1].body = tmIds

\* the shortest URL that is too long: 1801 characters, sent in the body form
C17_Witness ==
    /\ tmCaller = "useTrialMeta"
    /\ tmRequest # <<>> /\ tmRequest[1].method = "POST"
    /\ UrlLength(tmIds) = 1801

\* ------------------------------------------------------------------ C18
\* C18: two successive identifier lists of the page that denote the same set
\* of identifiers have the same query key (so the second is served by the
\* entry of the first), and lists that denote different sets have different
\* keys.
C18_KeyedByIdentifierSet ==
    [][(metaEnabled /\ metaEnabled') =>
          (Elems(nctIds') = Elems(nctIds) <=> metaKey' = metaKey)]_vars

\* ------------------------------------------------------------------ C19
wellFormedZip(req) == req.zip # NullText /\ Len(req.zip) = 5 /\ AllDigits(req.zip)

\* a year parameter that is sent
presentYearNotFourDigits(y) == y # NullText /\ ~(Len(y) = 4 /\ AllDigits(y))

\* a year parameter that is sent with a value
nonEmptyYearNotFourDigits(y) == presentYearNotFourDigits(y) /\ Len(y) > 0

isErrorOnly(res, status) ==
    /\ res.status = status /\ res.error
    /\ res.dbQueries = 0
    /\ res.physicians = <<>> /\ res.totalCount = 0

\* C19 as stated: 400 when the zip is not five digits or a year parameter is
\* present and not four digits, 404 when the zip is well-formed but unknown;
\* then no query and no payload.
C19_ValidationAsStated ==
    routeRes # <<>> =>
        LET req == routeReq[1]
            res == routeRes[1]
        IN  /\ (\/ ~wellFormedZip(req)
                \/ presentYearNotFourDigits(req.startYear)
                \/ presentYearNotFourDigits(req.endYear)) => isErrorOnly(res, 400)
            /\ (wellFormedZip(req) /\ ~zipcodes_lookup(req.zip)) => isErrorOnly(res, 404)

\* C19 amended: 400 when the zip is not five digits or a year parameter has a
\* non-empty value that is not four digits; 404 when the zip is well-formed
\* but unknown and neither year is refused; then no query and no payload; in
\* every other case the database is queried and the answer is 200.
C19_Validation ==
    routeRes # <<>> =>
        LET req == routeReq[1]
            res == routeRes[1]
            badYear == \/ nonEmptyYearNotFourDigits(req.startYear)
                       \/ nonEmptyYearNotFourDigits(req.endYear)
        IN  IF ~wellFormedZip(req) \/ badYear THEN isErrorOnly(res, 400)
            ELSE IF ~zipcodes_lookup(req.zip) THEN isErrorOnly(res, 404)
            ELSE res.status = 200 /\ ~res.error /\ res.dbQueries > 0

\* an unknown zip with an empty year parameter: 404
C19_Witness ==
    /\ routeRes # <<>>
    /\ routeReq[1].zip = Z99999
    /\ routeReq[1].startYear = <<>>
    /\ routeRes[1].status = 404

\* ------------------------------------------------------------------ C20
fourDigitYear(y) == y # NullText /\ Len(y) = 4 /\ AllDigits(y)

\* C20: when startYear and endYear are both given as four digits, both
\* conditions are applied, the lower bound with the smaller year and the
\* upper bound with the larger one.
C20_BothBoundsAppliedInOrder ==
    (/\ routeRes # <<>>
     /\ routeRes[1].status = 200
     /\ fourDigitYear(routeReq[1].startYear)
     /\ fourDigitYear(routeReq[1].endYear)) =>
        LET a == Number(routeReq[1].startYear)
            b == Number(routeReq[1].endYear)
            res == routeRes[1]
        IN  /\ res.gte # Undefined /\ res.lte # Undefined
            /\ res.gte = Min(a, b) /\ res.lte = Max(a, b)
            /\ res.gte <= res.lte

\* ------------------------------------------------------------------ C21
\* the metadata record of p's trial
RecordOf(p) == CHOOSE tm \in Elems(trialMeta) : tm.nctId = p.nctId

PhaseOk(tm) == filters.phases = {} \/ tm.phase \in filters.phases

SponsorOk(tm) ==
    \/ filters.sponsorType # "Industry"
    \/ /\ tm.fundedBy # NullText
       /\ toLowerCase(tm.fundedBy) = <<"i", "n", "d", "u", "s", "t", "r", "y">>

RecruitOk(tm) ==
    \/ ~filters.recruitingOnly
    \/ /\ tm.overallStatus # NullText
       /\ Len(tm.overallStatus) >= 7
       /\ toLowerCase(SubSeq(tm.overallStatus, 1, 7)) = <<"r", "e", "c", "r", "u", "i", "t">>

\* C21: under a non-identity FilterCriteria a candidate that has a metadata
\* record is in the output if and only if its record passes the phase, the
\* sponsor and the recruiting constraint; a null sponsor class or a null
\* status fails the constraint when it is active.
C21_FilterPredicateComplete ==
    isTrialFilterActive =>
        \A i \in 1..Len(base) :
            HasRecord(base[i]) =>
                LET tm == RecordOf(base[i])
                IN  /\ base[i] \in Elems(filteredPhysicians)
                        <=> (PhaseOk(tm) /\ SponsorOk(tm) /\ RecruitOk(tm))
                    /\ (filters.sponsorType = "Industry" /\ tm.fundedBy = NullText)
                        => base[i] \notin Elems(filteredPhysicians)
                    /\ (filters.recruitingOnly /\ tm.overallStatus = NullText)
                        => base[i] \notin Elems(filteredPhysicians)

\* records with a null sponsor class and with a null status are held, both
\* constraints are active and somebody passes
C21_Witness ==
    /\ isTrialFilterActive
    /\ filters.sponsorType = "Industry" /\ filters.recruitingOnly
    /\ \E p \in Elems(base) : HasRecord(p) /\ RecordOf(p).fundedBy = NullText
    /\ \E p \in Elems(base) : HasRecord(p) /\ RecordOf(p).overallStatus = NullText
    /\ Len(filteredPhysicians) > 0

\* ------------------------------------------------------------------ C22
PhaseDigits == {"1", "2", "3", "4"}

\* r is the normalised phase of the raw phase list of a study (<<>>: absent)
IsPhaseOf(r, phases) ==
    IF phases = <<>> \/ Len(phases[1]) = 0 THEN r = "NA"
    ELSE LET raw == phases[1][1]
         IN  IF \A i \in 1..Len(raw) : raw[i] \notin PhaseDigits THEN r = "NA"
             ELSE \E i \in 1..Len(raw) :
                    /\ raw[i] = r
                    /\ r \in PhaseDigits
                    /\ \A j \in 1..(i - 1) : raw[j] \notin PhaseDigits

\* C22: every record the endpoint returns has a phase among 1, 2, 3, 4, NA:
\* the first character in 1..4 of the first element of the study's raw phase
\* list, NA when the list is absent or empty or that element has none.
C22_PhaseNormalised ==
    FetchSucceeded =>
        LET body == tmResponse[1].body
        IN  /\ Len(body) = Len(gwOut)
            /\ \A k \in 1..Len(body) :
                  /\ body[k].phase \in PhaseDigits \cup {"NA"}
                  /\ IsPhaseOf(body[k].phase, gwOut[k].phases)

\* the answer holds a study whose first element has no such digit while a
\* later one has, a study with two phases in its first element, and studies
\* without a list and with an empty one
C22_Witness ==
    /\ FetchSucceeded
    /\ \E k \in 1..Len(gwOut) :
          /\ gwOut[k].phases # <<>> /\ Len(gwOut[k].phases[1]) = 2
          /\ tmResponse[1].body[k].phase = "NA"
    /\ \E k \in 1..Len(gwOut) :
          /\ gwOut[k].phases # <<>> /\ Len(gwOut[k].phases[1]) > 0
          /\ Len(gwOut[k].phases[1][1]) > 6
          /\ tmResponse[1].body[k].phase = "2"
    /\ \E k \in 1..Len(gwOut) : gwOut[k].phases = <<>>
    /\ \E k \in 1..Len(gwOut) : gwOut[k].phases = << <<>> >>

\* ------------------------------------------------------------------ C23
\* the records held by the metadata query, whatever its status
snapshot == IF metaData = <<>> THEN <<>> ELSE metaData[1]

\* p passes the criteria f by a record of the snapshot snap
Passes(p, f, snap) ==
    \E i \in 1..Len(snap) :
        /\ snap[i].nctId = p.nctId
        /\ (f.phases = {} \/ snap[i].phase \in f.phases)
        /\ (f.sponsorType = "Industry" =>
                /\ snap[i].fundedBy # NullText
                /\ toLowerCase(snap[i].fundedBy) = <<"i", "n", "d", "u", "s", "t", "r", "y">>)
        /\ (f.recruitingOnly =>
                /\ snap[i].overallStatus # NullText
                /\ startsWith(toLowerCase(snap[i].overallStatus),
                              <<"r", "e", "c", "r", "u", "i", "t">>))

\* the displayed sequence and the total as a function of the criteria, the
\* candidate sequence (with the server's total that came with it), the
\* snapshot and the page number, and of nothing else
Reconciled(f, candidates, serverTotal, snap, page) ==
    IF f = DEFAULT_FILTERS
    THEN [display |-> candidates, total |-> serverTotal]
    ELSE LET kept == SelectSeq(candidates, LAMBDA p : Passes(p, f, snap))
         IN  [display |-> SubSeq(kept, (page - 1) * ITEMS_PER_PAGE + 1,
                                 Min(page * ITEMS_PER_PAGE, Len(kept))),
              total |-> Len(kept)]

\* C23: the displayed sequence and the total are determined by the criteria,
\* the candidate sequence, the metadata snapshot and the page number alone,
\* whatever searches, filter changes, page changes and fetch outcomes came
\* before: two states that agree on these show the same.
C23_ReconciliationIdempotent ==
    [display |-> displayPhysicians, total |-> totalCountToShow]
        = Reconciled(filters, base, dataTotalCount, snapshot, currentPage)

\* filtered mode with a metadata query that failed on a later fetch and kept
\* its records: some candidates are shown, some are filtered out
C23_Witness ==
    /\ isTrialFilterActive
    /\ metaStatus = "error" /\ metaData # <<>>
    /\ allPhysicians # <<>>
    /\ Len(displayPhysicians) > 0
    /\ Len(displayPhysicians) < Len(base)

\* ------------------------------------------------------------------ C24
\* C24: every upstream request carries at most 100 identifiers, those of
\* input positions i+1 .. i+100 for a multiple i of 100, in input order, and
\* asks for a page of as many studies; a batch short of 100 is the last one;
\* and a fetch that succeeds has requested every batch, so that each input
\* position is in exactly one.
C24_ConsecutiveBatches ==
    /\ \A k \in 1..Len(gwLog) :
          LET r == gwLog[k]
          IN  /\ r.i % 100 = 0 /\ r.i < Len(gwIds)
              /\ Len(r.ids) <= 100 /\ Len(r.ids) >= 1
              /\ r.ids = [q \in 1..Len(r.ids) |-> gwIds[r.i + q]]
              /\ Len(r.ids) < 100 => r.i + Len(r.ids) = Len(gwIds)
              /\ r.pageSize = Len(r.ids)
    /\ FetchSucceeded =>
          \A q \in 1..Len(gwIds) :
              Cardinality({i \in BatchesIssued : i < q /\ q <= i + 100}) = 1

\* 101 identifiers: a batch of 100 and a batch of one
C24_Witness ==
    /\ FetchSucceeded
    /\ Len(gwIds) = 101
    /\ gwLog[1].pageSize = 100
    /\ gwLog[Len(gwLog)].pageSize = 1

\* ------------------------------------------------------------------ C25
\* C25: a change from one non-identity FilterCriteria to another schedules no
\* run of the full-set effect, leaves the outstanding fetches, the full-set
\* state and the metadata query alone (applying an equal criteria changes
\* nothing at all); a full-set fetch appears only in a run of the effect in
\* filtered mode, and such a run is scheduled only by a change from
\* unfiltered to filtered mode or of the search parameters while filtered.
C25_NoRefetchOnFilterChange ==
    [][ /\ (filters' # filters /\ isTrialFilterActive /\ isTrialFilterActive') =>
              /\ ~effectPending'
              /\ inflight' = inflight
              /\ UNCHANGED <<allPhysicians, allLoading, allError, allPhysiciansDataAvailable>>
              /\ metaKey' = metaKey
              /\ UNCHANGED <<metaStatus, metaData>>
        /\ (~(Live' \subseteq Live) \/ (allLoading' /\ ~allLoading)) =>
              (effectPending /\ isTrialFilterActive /\ searchParams # <<>>)
        /\ (effectPending' /\ ~effectPending /\ isTrialFilterActive') =>
              \/ ~isTrialFilterActive
              \/ (isTrialFilterActive /\ searchParams' # searchParams) ]_vars

\* filtered mode with two constraints active, the full set held and the
\* drawer available with nothing outstanding
C25_Witness ==
    /\ isTrialFilterActive
    /\ filters.recruitingOnly /\ filters.phases # {}
    /\ DrawerShown
    /\ ~effectPending
    /\ allPhysicians # <<>>
    /\ inflight = {}

\* ------------------------------------------------------------------ C26
\* C26: allLoading is set only while a full-set fetch that has not been
\* cancelled is outstanding: once the effect has run and no such fetch is in
\* flight, allLoading is false.
C26_LoadingOnlyWhileFetching ==
    (~effectPending /\ Live = {}) => ~allLoading

\* ------------------------------------------------------------------ C27
\* C27: the current page number never exceeds the number of pages of the
\* result set in play, max(1, ceil(totalCountToShow / ITEMS_PER_PAGE)), and
\* whenever the reported total is greater than zero the displayed page holds
\* somebody (looked at when the paged query has settled without error).
C27_PageWithinRange ==
    (~effectPending /\ ~isFetching /\ ~error) =>
        /\ currentPage <= Max(1, Ceil(totalCountToShow, ITEMS_PER_PAGE))
        /\ totalCountToShow > 0 => Len(displayPhysicians) > 0

\* ------------------------------------------------------------------ C28
\* C28: under a non-identity FilterCriteria, while the full-set fetch is in
\* flight and no full set is held, nothing computed from the paged server
\* result is displayed: the display is empty and the total is 0.
C28_NoPagedDataWhileFullSetLoads ==
    (isTrialFilterActive /\ ~effectPending /\ Live # {} /\ allPhysicians = <<>>) =>
        /\ displayPhysicians = <<>>
        /\ totalCountToShow = 0

\* ------------------------------------------------------------------ C29
\* filteredPhysicians for the criteria g in place of filters
FilteredBy(g) ==
    IF Len(base) = 0 THEN <<>>
    ELSE IF g = DEFAULT_FILTERS THEN base
    ELSE SelectSeq(base, LAMBDA p : Keep(p, g, metaMap))

\* the criteria with one active constraint of g each
Singles(g) ==
    (IF g.phases # {}
     THEN {[phases |-> g.phases, sponsorType |-> "Any", recruitingOnly |-> FALSE]} ELSE {})
    \cup (IF g.sponsorType = "Industry"
          THEN {[phases |-> {}, sponsorType |-> "Industry", recruitingOnly |-> FALSE]} ELSE {})
    \cup (IF g.recruitingOnly
          THEN {[phases |-> {}, sponsorType |-> "Any", recruitingOnly |-> TRUE]} ELSE {})

\* the output is the candidates that are in the output of every active
\* constraint taken alone, in candidate order
IsIntersectionOfSingles ==
    /\ filteredPhysicians = FilteredBy(filters)
    /\ filteredPhysicians =
          SelectSeq(base, LAMBDA p : \A g \in Singles(filters) : p \in Elems(FilteredBy(g)))

\* C29 as stated: the output is the intersection of the outputs of the
\* active constraints taken alone, and a criteria with a constraint more
\* (sponsor or recruiting) or with phases removed from a non-empty phase set
\* gives no investigator the current criteria does not give.
C29_ConjunctionAsStated ==
    /\ IsIntersectionOfSingles
    /\ \A g \in ActiveChoices :
          (/\ filters.sponsorType = "Industry" => g.sponsorType = "Industry"
           /\ filters.recruitingOnly => g.recruitingOnly
           /\ filters.phases # {} /\ g.phases \subseteq filters.phases)
              => Elems(FilteredBy(g)) \subseteq Elems(filteredPhysicians)

\* C29 amended: the same, for phases removed from a phase set that stays
\* non-empty, or for an unchanged phase set.
C29_Conjunction ==
    /\ IsIntersectionOfSingles
    /\ \A g \in ActiveChoices :
          (/\ filters.sponsorType = "Industry" => g.sponsorType = "Industry"
           /\ filters.recruitingOnly => g.recruitingOnly
           /\ \/ g.phases = filters.phases
              \/ (g.phases # {} /\ g.phases \subseteq filters.phases))
              => /\ Elems(FilteredBy(g)) \subseteq Elems(filteredPhysicians)
                 /\ IsSubsequence(FilteredBy(g), filteredPhysicians)

\* three constraints are active, each alone gives more than all together
C29_Witness ==
    /\ filters.phases = {"2", "NA"}
    /\ filters.sponsorType = "Industry" /\ filters.recruitingOnly
    /\ Len(filteredPhysicians) > 0
    /\ \A g \in Singles(filters) : Len(FilteredBy(g)) > Len(filteredPhysicians)

\* ------------------------------------------------------------------ C30
\* the submission is refused by handleSearch's validation
Rejected(zipCode, startYear, endYear) ==
    \/ ~(Len(zipCode) = 5 /\ AllDigits(zipCode))
    \/ ~isYearValid(startYear)
    \/ ~isYearValid(endYear)

\* C30: a search submission that the validation refuses changes none of
\* searchParams, currentPage, FilterCriteria and the held full set, schedules
\* no run of the full-set effect and issues no request.
C30_RejectedSearchChangesNothing ==
    [][\A zipCode \in ZipInputs, startYear \in StartYearInputs, endYear \in EndYearInputs :
          \/ ~Rejected(zipCode, startYear, endYear)
          \/ /\ UNCHANGED <<searchParams, currentPage, filters, allPhysicians>>
             /\ UNCHANGED <<isFetching, inflight>>
             /\ ~effectPending'
          \/ ~SearchSubmitted(zipCode, startYear, endYear)]_vars

TypeOK ==
    /\ currentPage >= 1
    /\ filters \in FilterChoices
    /\ isFetching \in BOOLEAN /\ error \in BOOLEAN /\ allLoading \in BOOLEAN
    /\ hasData \in BOOLEAN
    /\ Len(searchParams) <= 1 /\ Len(lastData) <= 1 /\ Len(allPhysicians) <= 1
    /\ Cardinality(Live) <= 1
    /\ Cardinality(Stale) <= 1

====
